---- MODULE Spec2Model ----
(***************************************************************************)
(* Model of the LLM bridge extension (src/src/extension.ts).               *)
(*                                                                         *)
(* Two state machines live in the file:                                    *)
(*   - the POST /chat request handler, one instance per request, cut into  *)
(*     the atomic sections between its awaits (Spec, FairSpec);            *)
(*   - the lifecycle of the module-level singleton llmBridgeServer:        *)
(*     start, the teardown disposables, the 'error' observer and the       *)
(*     asynchronous close callbacks (LifecycleSpec).                       *)
(***************************************************************************)
EXTENDS Naturals, Sequences, FiniteSets, TLC

(***************************************************************************)
(* Bounds of the model.                                                    *)
(***************************************************************************)
\* the longest fragment sequence one model invocation produces
MaxFragments == 2
\* the number of server instances startLlmBridgeServer may create
MaxInstances == 4
\* the number of invocations of the start command
MaxStartCalls == 5

(***************************************************************************)
(* JavaScript values.  A value is a record [t |-> type, v |-> text].       *)
(***************************************************************************)
Undefined == [t |-> "undefined", v |-> ""]
Null == [t |-> "null", v |-> ""]
Str(s) == [t |-> "string", v |-> s]
Num(s) == [t |-> "number", v |-> s]
Obj(s) == [t |-> "object", v |-> s]
Err(m) == [t |-> "error", v |-> m]

\* JavaScript truthiness, as used by !x, x || y and if (x)
Truthy(x) ==
    CASE x.t = "undefined" -> FALSE
      [] x.t = "null" -> FALSE
      [] x.t = "string" -> x.v /= ""
      [] x.t = "number" -> x.v /= "0"
      [] x.t = "boolean" -> x.v = "true"
      [] OTHER -> TRUE

\* String(x)
StringOf(x) ==
    CASE x.t = "error" -> IF x.v = "" THEN "Error" ELSE "Error: " \o x.v
      [] x.t = "undefined" -> "undefined"
      [] x.t = "null" -> "null"
      [] x.t = "object" -> "[object Object]"
      [] OTHER -> x.v

\* x.prompt, x.message and the like: a property read throws a TypeError on
\* null and undefined
CanReadProperty(x) == x.t \notin {"null", "undefined"}
NullPropertyError == Err("Cannot read properties of null")

\* the outcome of an expression that throws instead of yielding a value
TypeErrorThrown == [t |-> "throws", v |-> "TypeError"]
Throws(x) == x.t = "throws"

\* x.message : throws on null and undefined, defined on Error objects only
MessageOf(x) ==
    IF ~CanReadProperty(x) THEN TypeErrorThrown
    ELSE IF x.t = "error" THEN Str(x.v) ELSE Undefined

\* error.message || String(error): the string, or the throw of .message
ErrorText(e) ==
    LET m == MessageOf(e)
    IN  IF Throws(m) THEN m
        ELSE IF Truthy(m) THEN m ELSE Str(StringOf(e))

(***************************************************************************)
(* Request bodies on the wire.  A body text is a sequence of tokens; the   *)
(* client sends it in chunks and parseJsonBody concatenates the chunks.    *)
(* A token is [tok, key, val]: a brace, an object member key:val, or a     *)
(* literal that is a whole JSON text by itself.                            *)
(***************************************************************************)
LBrace == [tok |-> "{", key |-> "", val |-> Undefined]
RBrace == [tok |-> "}", key |-> "", val |-> Undefined]
Member(k, x) == [tok |-> "member", key |-> k, val |-> x]
Literal(x) == [tok |-> "literal", key |-> "", val |-> x]

\* the value of JSON.parse for a non-object text, or of a missing property
JsValue(x) ==
    [t |-> x.t, v |-> x.v, prompt |-> Undefined, vendor |-> Undefined,
     family |-> Undefined, options |-> Undefined]

EmptyObject == JsValue(Obj("{}"))

\* the object built from the members ms, a later member replacing an
\* earlier one of the same key
RECURSIVE ObjectOf(_)
ObjectOf(ms) ==
    IF ms = <<>> THEN EmptyObject
    ELSE LET rest == ObjectOf(SubSeq(ms, 1, Len(ms) - 1))
             m == ms[Len(ms)]
         IN  CASE m.key = "prompt" -> [rest EXCEPT !.prompt = m.val]
               [] m.key = "vendor" -> [rest EXCEPT !.vendor = m.val]
               [] m.key = "family" -> [rest EXCEPT !.family = m.val]
               [] m.key = "options" -> [rest EXCEPT !.options = m.val]
               [] OTHER -> rest

\* JSON.parse(body): [ok |-> TRUE, value |-> v], or ok = FALSE when it throws
JsonParse(text) ==
    LET n == Len(text)
        fail == [ok |-> FALSE, value |-> JsValue(Undefined)]
    IN  IF n = 1 /\ text[1].tok = "literal"
        THEN [ok |-> TRUE, value |-> JsValue(text[1].val)]
        ELSE IF /\ n >= 2
                /\ text[1].tok = "{"
                /\ text[n].tok = "}"
                /\ \A i \in 2..(n - 1) : text[i].tok = "member"
        THEN [ok |-> TRUE, value |-> ObjectOf(SubSeq(text, 2, n - 1))]
        ELSE fail

\* the error parseJsonBody rejects with when JSON.parse throws; the text
\* stands for 'Invalid JSON body: ' + e, whose tail is the parser's diagnostic
InvalidJsonError == Err("Invalid JSON body: SyntaxError")


\* the body texts the clients send
Bodies ==
    { <<LBrace, Member("prompt", Str("hi")), RBrace>>,
      <<LBrace, Member("prompt", Str("hi")), Member("vendor", Str("acme")), RBrace>>,
      <<LBrace, Member("prompt", Str("hi")), Member("family", Str("gpt-4o")), RBrace>>,
      <<LBrace, Member("prompt", Str("hi")), Member("vendor", Str("acme")),
        Member("family", Str("gpt-4o")), RBrace>>,
      <<LBrace, Member("prompt", Str("hi")), Member("options", Obj("{opts}")), RBrace>>,
      <<LBrace, Member("prompt", Str("hi")), Member("vendor", Str("")),
        Member("family", Str("")), RBrace>>,
      <<LBrace, Member("prompt", Str("hi")), Member("vendor", Obj("{}")),
        Member("family", Num("42")), RBrace>>,
      <<LBrace, RBrace>>,
      <<LBrace, Member("vendor", Str("acme")), RBrace>>,
      <<LBrace, Member("prompt", Str("")), RBrace>>,
      <<LBrace, Member("prompt", Str("")), Member("prompt", Str("hi")), RBrace>>,
      <<LBrace, Member("prompt", Num("0")), RBrace>>,
      <<LBrace, Member("prompt", Num("42")), RBrace>>,
      <<LBrace, Member("prompt", Null), RBrace>>,
      <<LBrace, Member("prompt", Obj("{}")), RBrace>>,
      <<Literal(Null)>>,
      <<Literal(Num("7"))>>,
      <<LBrace, Member("prompt", Str("hi"))>>,
      <<>> }

(***************************************************************************)
(* http.ServerResponse, as far as the handler uses it.  afterEnd counts    *)
(* the header writes and writes issued once end() has been called.         *)
(***************************************************************************)
NewResponse ==
    [statusCode |-> 0, headersSent |-> FALSE, headWrites |-> 0, chunks |-> <<>>,
     writableEnded |-> FALSE, endCalls |-> 0, endBody |-> <<>>, afterEnd |-> 0]

\* res.writeHead(code, headers)
WriteHead(rs, code) ==
    [rs EXCEPT !.statusCode = code, !.headersSent = TRUE, !.headWrites = @ + 1,
               !.afterEnd = IF rs.writableEnded THEN @ + 1 ELSE @]

\* res.write(chunk): a chunk is the sequence of the strings it is made of
Write(rs, chunk) ==
    IF rs.writableEnded
    THEN [rs EXCEPT !.afterEnd = @ + 1]
    ELSE [rs EXCEPT !.chunks = Append(@, chunk)]

\* res.end(data)
End(rs, data) ==
    [rs EXCEPT !.writableEnded = TRUE, !.endCalls = @ + 1,
               !.endBody = IF rs.writableEnded THEN @ ELSE data]

PromptRequiredBody == <<"error", "Prompt is required in the request body.">>
NotFoundBody == <<"error", "Not Found. Use POST /chat">>
FailedBody(error) ==
    <<"error", "Failed to process chat request.", "details", ErrorText(error).v>>
NoModelBody(modelVendor, modelFamily) ==
    <<"error", "No suitable language model found for vendor '",
      StringOf(modelVendor), "'">>
    \o (IF Truthy(modelFamily)
        THEN <<" and family '", StringOf(modelFamily), "'">>
        ELSE <<>>)
    \o <<". Ensure the provider (e.g., GitHub Copilot) is active and available.">>

\* the inline marker of a model error
ErrorMarker(llmError) == <<"\nError from LLM service: ", ErrorText(llmError).v, "\n">>

(***************************************************************************)
(* The guards of the handler.                                              *)
(***************************************************************************)
\* a route test that looks at the path alone
IsChatRouteAnyMethod(m, u) == u = "/chat"

\* req.method === 'POST' && req.url === '/chat'
IsChatRoute(m, u) == m = "POST" /\ u = "/chat"

\* a prompt test that lets every prompt pass
PromptMissingNever(userPrompt) == FALSE

\* !userPrompt
PromptMissing(userPrompt) == ~Truthy(userPrompt)

\* requestBody.vendor || 'copilot'
ModelVendor(requestBody) ==
    IF Truthy(requestBody.vendor) THEN requestBody.vendor ELSE Str("copilot")

\* { vendor: modelVendor }, with family when modelFamily is truthy
ModelSelector(requestBody) ==
    [vendor |-> ModelVendor(requestBody),
     family |-> IF Truthy(requestBody.family) THEN requestBody.family ELSE Undefined]

\* a test of the host's result that forgets the empty list: !models
NoModelsAbsentOnly(models) == ~models.defined

\* !models || models.length === 0
NoModels(models) == ~models.defined \/ Len(models.list) = 0

\* const model = models[0], with the last entry taken instead
LastModel(models) ==
    IF Len(models.list) > 0 THEN models.list[Len(models.list)] ELSE "undefined"

\* const model = models[0]
FirstModel(models) == IF Len(models.list) > 0 THEN models.list[1] ELSE "undefined"

\* requestBody.options || {}
ChatRequestOptions(requestBody) ==
    IF Truthy(requestBody.options) THEN requestBody.options ELSE Obj("{}")

\* one token source shared by all requests: the first request's
TokenSourceShared(r) == "r1"

\* the token source the 'close' observer of request r closes over: the one
\* created for r
TokenSourceOf(r) == r

\* a 'close' observer that cancels whatever the state of the response
ShouldCancelAlways(rs) == TRUE

\* the test of the 'close' observer: !res.writableEnded
ShouldCancel(rs) == ~rs.writableEnded

\* the test of the relay loop with its negation lost
StreamOpenInverted(rs) == rs.writableEnded

\* the test of the relay loop: !res.writableEnded
StreamOpen(rs) == ~rs.writableEnded

\* the inner catch block throws: the template reads .message of a thrown
\* null or undefined
InnerCatchThrows(rs, llmError) == ~rs.writableEnded /\ Throws(ErrorText(llmError))

\* the inner catch block; nothing is written when it throws
InnerCatch(rs, llmError) ==
    IF ~rs.writableEnded /\ ~Throws(ErrorText(llmError))
    THEN Write(rs, ErrorMarker(llmError))
    ELSE rs

\* the finally block
InnerFinally(rs) == IF ~rs.writableEnded THEN End(rs, <<>>) ELSE rs

\* an outer catch block with the test of headersSent inverted
OuterCatchInverted(rs, error) ==
    LET r1 == IF rs.headersSent THEN WriteHead(rs, 500) ELSE rs
    IN  IF ~r1.writableEnded /\ ~Throws(ErrorText(error))
        THEN End(r1, FailedBody(error))
        ELSE r1

\* the outer catch block; when error.message throws the response is left
\* as it is after the header
OuterCatch(rs, error) ==
    LET r1 == IF ~rs.headersSent THEN WriteHead(rs, 500) ELSE rs
    IN  IF ~r1.writableEnded /\ ~Throws(ErrorText(error))
        THEN End(r1, FailedBody(error))
        ELSE r1

\* the model failed with llmError: the inner catch, the finally block, and
\* the outer catch for what the inner catch throws
ModelFailed(rs, llmError) ==
    LET out == InnerFinally(InnerCatch(rs, llmError))
    IN  IF InnerCatchThrows(rs, llmError)
        THEN OuterCatch(out, NullPropertyError)
        ELSE out

(***************************************************************************)
(* The environment of a request.                                           *)
(***************************************************************************)
Methods == {"POST", "GET"}
Urls == {"/chat", "/other"}
Fragments == {"a", "b"}
\* what the model may throw or reject with: Error objects, with and without
\* a message, a thrown string, and a rejection with undefined or null
ModelErrors == {Err("boom"), Err(""), Str("oops"), Undefined, Null}
\* what vscode.lm.selectChatModels may resolve to
HostResults ==
    { [defined |-> FALSE, list |-> <<>>],
      [defined |-> TRUE, list |-> <<>>],
      [defined |-> TRUE, list |-> <<"m1">>],
      [defined |-> TRUE, list |-> <<"m2", "m1">>] }
\* what vscode.lm.selectChatModels may reject with
SelectionErrors == {Err("selection failed"), Undefined, Null}
AbortedError == Err("aborted")

StreamOpenState == [state |-> "open", error |-> Undefined]
StreamDoneState == [state |-> "done", error |-> Undefined]
StreamErrorState(e) == [state |-> "error", error |-> e]

NoTokenSource == [created |-> FALSE, cancelCalls |-> 0]

\* the states of the promise of parseJsonBody
Pending == [state |-> "pending", value |-> JsValue(Undefined), error |-> Undefined]
Resolved(x) == [state |-> "resolved", value |-> x, error |-> Undefined]
Rejected(e) == [state |-> "rejected", value |-> JsValue(Undefined), error |-> e]

(***************************************************************************)
(* State.                                                                  *)
(***************************************************************************)
VARIABLES
    \* ---- per request (functions over the request ids) ----
    pc,             \* where the handler of the request is suspended
    reqLine,        \* [method, url] of the request
    wire,           \* body tokens the client has still to send
    body,           \* parseJsonBody's accumulator
    bodyPromise,    \* the promise parseJsonBody returned
    requestBody,    \* the parsed body
    res,            \* the response object
    queries,        \* the selectors passed to vscode.lm.selectChatModels
    models,         \* the results selectChatModels has resolved to
    invoked,        \* the model.sendRequest calls: [model, prompt, options]
    produced,       \* the fragments the model stream has produced
    stream,         \* the model stream: open, done or failed
    consumed,       \* the number of fragments the relay loop has taken
    cts,            \* the CancellationTokenSource: [created, cancelCalls]
    closeObserver,  \* whether req.on('close', ...) has been registered
    closeEmitted,   \* whether the request's 'close' event has been emitted
    \* ---- the server singleton ----
    llmBridgeServer,    \* 0 (null) or the instance the module variable holds
    created,            \* the number of instances http.createServer returned
    listening,          \* instance -> server.listening
    bindFailed,         \* instance -> the 'error' of a failed listen is pending
    closeCb,            \* instance -> a close(callback) has not completed
    observers,          \* instance -> number of 'error' observers registered
    disposables,        \* number of teardown disposables pushed
    disposed,           \* number of teardown disposables that have run
    startCalls,         \* number of calls of startLlmBridgeServer
    listenCb,           \* instance -> the callback passed to listen is due
    notice,             \* the last message logged or shown to the user
    thrown              \* whether a lifecycle operation raised

reqVars == <<pc, reqLine, wire, body, bodyPromise, requestBody, res, queries, models, invoked,
             produced, stream, consumed, cts, closeObserver, closeEmitted>>
serverVars == <<llmBridgeServer, created, listening, bindFailed, closeCb, observers,
                listenCb, disposables, disposed, startCalls, notice, thrown>>
vars == <<reqVars, serverVars>>

Requests == DOMAIN pc
Instances == 1..MaxInstances

\* the request ids of a single request
OneRequest == {"r1"}

RequestsInit(ids) ==
    /\ pc = [r \in ids |-> "idle"]
    /\ reqLine = [r \in ids |-> [method |-> "", url |-> ""]]
    /\ wire = [r \in ids |-> <<>>]
    /\ body = [r \in ids |-> <<>>]
    /\ bodyPromise = [r \in ids |-> Pending]
    /\ requestBody = [r \in ids |-> JsValue(Undefined)]
    /\ res = [r \in ids |-> NewResponse]
    /\ queries = [r \in ids |-> <<>>]
    /\ models = [r \in ids |-> <<>>]
    /\ invoked = [r \in ids |-> <<>>]
    /\ produced = [r \in ids |-> <<>>]
    /\ stream = [r \in ids |-> StreamOpenState]
    /\ consumed = [r \in ids |-> 0]
    /\ cts = [r \in ids |-> NoTokenSource]
    /\ closeObserver = [r \in ids |-> FALSE]
    /\ closeEmitted = [r \in ids |-> FALSE]

\* the module as loaded: let llmBridgeServer = null
ServerStopped ==
    /\ llmBridgeServer = 0
    /\ created = 0
    /\ listening = [i \in Instances |-> FALSE]
    /\ bindFailed = [i \in Instances |-> FALSE]
    /\ closeCb = [i \in Instances |-> FALSE]
    /\ observers = [i \in Instances |-> 0]
    /\ listenCb = [i \in Instances |-> FALSE]
    /\ disposables = 0
    /\ disposed = 0
    /\ startCalls = 0
    /\ notice = "none"
    /\ thrown = FALSE

\* the state one successful start leaves once its listen callback has run:
\* instance 1 bound and listening
ServerListening ==
    /\ llmBridgeServer = 1
    /\ created = 1
    /\ listening = [i \in Instances |-> i = 1]
    /\ bindFailed = [i \in Instances |-> FALSE]
    /\ closeCb = [i \in Instances |-> FALSE]
    /\ observers = [i \in Instances |-> IF i = 1 THEN 1 ELSE 0]
    /\ listenCb = [i \in Instances |-> FALSE]
    /\ disposables = 1
    /\ disposed = 0
    /\ startCalls = 1
    /\ notice = "started"
    /\ thrown = FALSE

(***************************************************************************)
(* The request handler: one action per section between two awaits.         *)
(***************************************************************************)
\* what the handler leaves alone when it only touches pc and res
RestOfRequest ==
    UNCHANGED <<reqLine, wire, body, bodyPromise, requestBody, queries, models, invoked,
                produced, stream, consumed, cts, closeObserver, closeEmitted>>

\* A request arrives: the route test, then either the 404 branch or the
\* call of parseJsonBody, which suspends until the body has ended.
Arrive(r, m, u, b) ==
    /\ pc[r] = "idle"
    /\ reqLine' = [reqLine EXCEPT ![r] = [method |-> m, url |-> u]]
    /\ wire' = [wire EXCEPT ![r] = b]
    /\ IF IsChatRoute(m, u)
       THEN /\ pc' = [pc EXCEPT ![r] = "reading"]
            /\ res' = res
       ELSE /\ pc' = [pc EXCEPT ![r] = "done"]
            /\ res' = [res EXCEPT ![r] = End(WriteHead(@, 404), NotFoundBody)]
    /\ UNCHANGED <<body, bodyPromise, requestBody, queries, models, invoked, produced, stream,
                   consumed, cts, closeObserver, closeEmitted>>
    /\ UNCHANGED serverVars

\* req 'data': the next k tokens arrive as one chunk; body += chunk
ReqData(r, k) ==
    /\ pc[r] = "reading"
    /\ bodyPromise[r].state = "pending"
    /\ k \in 1..Len(wire[r])
    /\ body' = [body EXCEPT ![r] = @ \o SubSeq(wire[r], 1, k)]
    /\ wire' = [wire EXCEPT ![r] = SubSeq(@, k + 1, Len(@))]
    /\ UNCHANGED <<pc, reqLine, bodyPromise, requestBody, res, queries, models, invoked, produced,
                   stream, consumed, cts, closeObserver, closeEmitted>>
    /\ UNCHANGED serverVars

\* req 'end': JSON.parse(body) settles the promise of parseJsonBody; the
\* handler stays suspended at its await until the continuation runs
ReqEnd(r) ==
    /\ pc[r] = "reading"
    /\ bodyPromise[r].state = "pending"
    /\ wire[r] = <<>>
    /\ LET parsed == JsonParse(body[r])
       IN  bodyPromise' = [bodyPromise EXCEPT ![r] =
                              IF parsed.ok THEN Resolved(parsed.value)
                              ELSE Rejected(InvalidJsonError)]
    /\ UNCHANGED <<pc, reqLine, wire, body, requestBody, res, queries, models,
                   invoked, produced, stream, consumed, cts, closeObserver,
                   closeEmitted>>
    /\ UNCHANGED serverVars

\* req 'error' while the body is read: parseJsonBody rejects
ReqError(r) ==
    /\ pc[r] = "reading"
    /\ bodyPromise[r].state = "pending"
    /\ bodyPromise' = [bodyPromise EXCEPT ![r] = Rejected(AbortedError)]
    /\ UNCHANGED <<pc, reqLine, wire, body, requestBody, res, queries, models,
                   invoked, produced, stream, consumed, cts, closeObserver,
                   closeEmitted>>
    /\ UNCHANGED serverVars

\* the continuation after await parseJsonBody(req): the outer catch when
\* the promise was rejected, else the handler up to selectChatModels
BodySettled(r) ==
    /\ pc[r] = "reading"
    /\ bodyPromise[r].state /= "pending"
    /\ LET value == bodyPromise[r].value
       IN  IF bodyPromise[r].state = "rejected"
           THEN /\ res' = [res EXCEPT ![r] = OuterCatch(@, bodyPromise[r].error)]
                /\ pc' = [pc EXCEPT ![r] = "done"]
                /\ UNCHANGED <<requestBody, queries>>
           ELSE /\ requestBody' = [requestBody EXCEPT ![r] = value]
                /\ IF ~CanReadProperty(value)
                   THEN /\ res' = [res EXCEPT ![r] = OuterCatch(@, NullPropertyError)]
                        /\ pc' = [pc EXCEPT ![r] = "done"]
                        /\ UNCHANGED queries
                   ELSE IF PromptMissing(value.prompt)
                   THEN /\ res' = [res EXCEPT ![r] =
                                      End(WriteHead(@, 400), PromptRequiredBody)]
                        /\ pc' = [pc EXCEPT ![r] = "done"]
                        /\ UNCHANGED queries
                   ELSE /\ queries' = [queries EXCEPT ![r] =
                                          Append(@, ModelSelector(value))]
                        /\ pc' = [pc EXCEPT ![r] = "selecting"]
                        /\ res' = res
    /\ UNCHANGED <<reqLine, wire, body, bodyPromise, models, invoked, produced,
                   stream, consumed, cts, closeObserver, closeEmitted>>
    /\ UNCHANGED serverVars

\* selectChatModels resolves: the 503 branch, or the 200 headers, the token
\* source, the 'close' observer and the call of model.sendRequest
SelectResolved(r, ms) ==
    /\ pc[r] = "selecting"
    /\ models' = [models EXCEPT ![r] = Append(@, ms)]
    /\ IF NoModels(ms)
       THEN /\ res' = [res EXCEPT ![r] =
                          End(WriteHead(@, 503),
                              NoModelBody(ModelVendor(requestBody[r]),
                                          requestBody[r].family))]
            /\ pc' = [pc EXCEPT ![r] = "done"]
            /\ UNCHANGED <<invoked, cts, closeObserver>>
       ELSE /\ res' = [res EXCEPT ![r] = WriteHead(@, 200)]
            /\ cts' = [cts EXCEPT ![r] = [created |-> TRUE, cancelCalls |-> 0]]
            /\ closeObserver' = [closeObserver EXCEPT ![r] = TRUE]
            /\ invoked' = [invoked EXCEPT ![r] =
                              Append(@, [model |-> FirstModel(ms),
                                         prompt |-> requestBody[r].prompt,
                                         options |-> ChatRequestOptions(requestBody[r])])]
            /\ pc' = [pc EXCEPT ![r] = "invoking"]
    /\ UNCHANGED <<reqLine, wire, body, bodyPromise, requestBody, queries, produced, stream,
                   consumed, closeEmitted>>
    /\ UNCHANGED serverVars

\* selectChatModels rejects: the outer catch
SelectRejected(r, e) ==
    /\ pc[r] = "selecting"
    /\ res' = [res EXCEPT ![r] = OuterCatch(@, e)]
    /\ pc' = [pc EXCEPT ![r] = "done"]
    /\ RestOfRequest
    /\ UNCHANGED serverVars

\* model.sendRequest resolves: the relay loop asks for the first fragment
SendResolved(r) ==
    /\ pc[r] = "invoking"
    /\ pc' = [pc EXCEPT ![r] = "streaming"]
    /\ UNCHANGED res
    /\ RestOfRequest
    /\ UNCHANGED serverVars

\* model.sendRequest rejects: inner catch, then finally
SendRejected(r, e) ==
    /\ pc[r] = "invoking"
    /\ stream' = [stream EXCEPT ![r] = StreamErrorState(e)]
    /\ res' = [res EXCEPT ![r] = ModelFailed(@, e)]
    /\ pc' = [pc EXCEPT ![r] = "done"]
    /\ UNCHANGED <<reqLine, wire, body, bodyPromise, requestBody, queries, models, invoked,
                   produced, consumed, cts, closeObserver, closeEmitted>>
    /\ UNCHANGED serverVars

\* the model produces one more fragment
ModelEmit(r, f) ==
    /\ pc[r] = "streaming"
    /\ stream[r].state = "open"
    /\ Len(produced[r]) < MaxFragments
    /\ produced' = [produced EXCEPT ![r] = Append(@, f)]
    /\ UNCHANGED <<pc, reqLine, wire, body, bodyPromise, requestBody, res, queries, models,
                   invoked, stream, consumed, cts, closeObserver, closeEmitted>>
    /\ UNCHANGED serverVars

\* the model signals completion
ModelComplete(r) ==
    /\ pc[r] = "streaming"
    /\ stream[r].state = "open"
    /\ stream' = [stream EXCEPT ![r] = StreamDoneState]
    /\ UNCHANGED <<pc, reqLine, wire, body, bodyPromise, requestBody, res, queries, models,
                   invoked, produced, consumed, cts, closeObserver, closeEmitted>>
    /\ UNCHANGED serverVars

\* the model raises in the middle of the stream
ModelFail(r, e) ==
    /\ pc[r] = "streaming"
    /\ stream[r].state = "open"
    /\ stream' = [stream EXCEPT ![r] = StreamErrorState(e)]
    /\ UNCHANGED <<pc, reqLine, wire, body, bodyPromise, requestBody, res, queries, models,
                   invoked, produced, consumed, cts, closeObserver, closeEmitted>>
    /\ UNCHANGED serverVars

\* one iteration of the relay loop: the next fragment is written, or the
\* loop breaks, which calls the iterator's return() and awaits it
RelayFragment(r) ==
    /\ pc[r] = "streaming"
    /\ consumed[r] < Len(produced[r])
    /\ consumed' = [consumed EXCEPT ![r] = @ + 1]
    /\ IF StreamOpen(res[r])
       THEN /\ res' = [res EXCEPT ![r] = Write(@, <<produced[r][consumed[r] + 1]>>)]
            /\ pc' = pc
       ELSE /\ res' = res
            /\ pc' = [pc EXCEPT ![r] = "breaking"]
    /\ UNCHANGED <<reqLine, wire, body, bodyPromise, requestBody, queries, models, invoked,
                   produced, stream, cts, closeObserver, closeEmitted>>
    /\ UNCHANGED serverVars

\* the loop is left, the stream being exhausted or the return() of a break
\* having resolved: the finally block runs and the handler returns
StreamFinished(r) ==
    /\ pc[r] \in {"streaming", "breaking"}
    /\ pc[r] = "streaming" =>
           (consumed[r] = Len(produced[r]) /\ stream[r].state = "done")
    /\ res' = [res EXCEPT ![r] = InnerFinally(@)]
    /\ pc' = [pc EXCEPT ![r] = "done"]
    /\ RestOfRequest
    /\ UNCHANGED serverVars

\* the stream throws at the next fragment: inner catch, then finally
StreamThrew(r) ==
    /\ pc[r] = "streaming"
    /\ consumed[r] = Len(produced[r])
    /\ stream[r].state = "error"
    /\ res' = [res EXCEPT ![r] = ModelFailed(@, stream[r].error)]
    /\ pc' = [pc EXCEPT ![r] = "done"]
    /\ RestOfRequest
    /\ UNCHANGED serverVars

\* the request's 'close' event (the request has been read to its end, or
\* the client has gone), not before the promise of parseJsonBody has
\* settled; the observer runs when it has been registered
ReqClose(r) ==
    /\ pc[r] /= "idle"
    /\ pc[r] = "reading" => bodyPromise[r].state /= "pending"
    /\ ~closeEmitted[r]
    /\ closeEmitted' = [closeEmitted EXCEPT ![r] = TRUE]
    /\ cts' = [cts EXCEPT ![TokenSourceOf(r)] =
                  IF closeObserver[r] /\ ShouldCancel(res[r])
                  THEN [@ EXCEPT !.cancelCalls = @ + 1]
                  ELSE @]
    /\ UNCHANGED <<pc, reqLine, wire, body, bodyPromise, requestBody, res, queries, models,
                   invoked, produced, stream, consumed, closeObserver>>
    /\ UNCHANGED serverVars

HandlerStep(r) ==
    \/ ReqEnd(r)
    \/ BodySettled(r)
    \/ RelayFragment(r)
    \/ StreamFinished(r)
    \/ StreamThrew(r)

Init == RequestsInit(OneRequest) /\ ServerListening

Next ==
    \/ \E r \in Requests, m \in Methods, u \in Urls, b \in Bodies : Arrive(r, m, u, b)
    \/ \E r \in Requests : \E k \in 1..Len(wire[r]) : ReqData(r, k)
    \/ \E r \in Requests : ReqEnd(r)
    \/ \E r \in Requests : ReqError(r)
    \/ \E r \in Requests : BodySettled(r)
    \/ \E r \in Requests, ms \in HostResults : SelectResolved(r, ms)
    \/ \E r \in Requests, e \in SelectionErrors : SelectRejected(r, e)
    \/ \E r \in Requests : SendResolved(r)
    \/ \E r \in Requests, e \in ModelErrors : SendRejected(r, e)
    \/ \E r \in Requests, f \in Fragments : ModelEmit(r, f)
    \/ \E r \in Requests : ModelComplete(r)
    \/ \E r \in Requests, e \in ModelErrors : ModelFail(r, e)
    \/ \E r \in Requests : RelayFragment(r)
    \/ \E r \in Requests : StreamFinished(r)
    \/ \E r \in Requests : StreamThrew(r)
    \/ \E r \in Requests : ReqClose(r)

Spec == Init /\ [][Next]_vars

\* The runtime runs a continuation once its promise has settled: the steps
\* of the handler are weakly fair; the client, the host and the model are not.
FairSpec == Spec /\ \A r \in OneRequest : WF_vars(HandlerStep(r))

\* Two requests in flight on the same server: each is a POST /chat with a
\* valid prompt, for which the host returns one model; the fragments, the
\* model errors and the disconnects of the two interleave freely.
TwoRequests == {"r1", "r2"}
ConcurrentBody == <<LBrace, Member("prompt", Str("hi")), RBrace>>
ConcurrentModels == [defined |-> TRUE, list |-> <<"m1">>]
ConcurrentError == Err("boom")

ConcurrentInit == RequestsInit(TwoRequests) /\ ServerListening

ConcurrentNext ==
    \/ \E r \in Requests : Arrive(r, "POST", "/chat", ConcurrentBody)
    \/ \E r \in Requests : ReqData(r, Len(wire[r]))
    \/ \E r \in Requests : ReqEnd(r)
    \/ \E r \in Requests : BodySettled(r)
    \/ \E r \in Requests : SelectResolved(r, ConcurrentModels)
    \/ \E r \in Requests : SendResolved(r)
    \/ \E r \in Requests : SendRejected(r, ConcurrentError)
    \/ \E r \in Requests, f \in Fragments : ModelEmit(r, f)
    \/ \E r \in Requests : ModelComplete(r)
    \/ \E r \in Requests : ModelFail(r, ConcurrentError)
    \/ \E r \in Requests : RelayFragment(r)
    \/ \E r \in Requests : StreamFinished(r)
    \/ \E r \in Requests : StreamThrew(r)
    \/ \E r \in Requests : ReqClose(r)

ConcurrentSpec == ConcurrentInit /\ [][ConcurrentNext]_vars

(***************************************************************************)
(* The lifecycle of the singleton server.                                  *)
(***************************************************************************)
\* a start without its guard
AlreadyRunningNever(server, isListening) == FALSE

\* the guard of startLlmBridgeServer: llmBridgeServer && llmBridgeServer.listening
AlreadyRunning(server, isListening) == server /= 0 /\ isListening[server]

\* a teardown without its null test
HasServerAlways(server) == TRUE

\* a teardown with its null test inverted
HasServerInverted(server) == server = 0

\* the guard of the teardown disposable: if (llmBridgeServer)
HasServer(server) == server /= 0

\* server.close(): the listening handle is released at once
CloseHandle(isListening, server) == [isListening EXCEPT ![server] = FALSE]

\* whether the fixed port can be bound: never while an instance of this
\* process holds it
PortHeld == \E i \in Instances : listening[i]

\* the 'error' of a failed listen is emitted on the next tick, before any
\* command or teardown can run
TickPending == \E i \in Instances : bindFailed[i]

\* startLlmBridgeServer(context).  listen(PORT) without a host binds within
\* the call: it leaves the instance listening, or not listening with its
\* 'error' event pending; ok is whether the operating system grants the port.
Start(ok) ==
    /\ startCalls < MaxStartCalls
    /\ ~TickPending
    /\ startCalls' = startCalls + 1
    /\ IF AlreadyRunning(llmBridgeServer, listening)
       THEN /\ notice' = "already running"
            /\ UNCHANGED <<llmBridgeServer, created, listening, bindFailed, closeCb,
                           observers, listenCb, disposables, disposed, thrown>>
       ELSE /\ created < MaxInstances
            /\ ok => ~PortHeld
            /\ LET new == created + 1
               IN  /\ created' = new
                   /\ llmBridgeServer' = new
                   /\ listening' = [listening EXCEPT ![new] = ok]
                   /\ bindFailed' = [bindFailed EXCEPT ![new] = ~ok]
                   /\ observers' = [observers EXCEPT ![new] = @ + 1]
                   /\ listenCb' = [listenCb EXCEPT ![new] = ok]
            /\ disposables' = disposables + 1
            /\ notice' = "starting"
            /\ UNCHANGED <<closeCb, disposed, thrown>>
    /\ UNCHANGED reqVars

\* the 'error' observer of instance i runs: for the pending error of a
\* failed listen, or for a failure of the listening socket
ErrorEvent(i) ==
    /\ i <= created
    /\ observers[i] > 0
    /\ bindFailed[i] \/ listening[i]
    /\ bindFailed' = [bindFailed EXCEPT ![i] = FALSE]
    /\ notice' = "error"
    /\ listening' = IF llmBridgeServer /= 0
                    THEN CloseHandle(listening, llmBridgeServer)
                    ELSE listening
    /\ llmBridgeServer' = 0
    /\ UNCHANGED <<created, closeCb, observers, listenCb, disposables, disposed,
                   startCalls, thrown>>
    /\ UNCHANGED reqVars

\* one of the teardown disposables runs
Dispose ==
    /\ disposed < disposables
    /\ ~TickPending
    /\ disposed' = disposed + 1
    /\ IF HasServer(llmBridgeServer)
       THEN IF llmBridgeServer = 0
            THEN \* close of null: a TypeError
                 /\ thrown' = TRUE
                 /\ UNCHANGED <<listening, closeCb>>
            ELSE /\ listening' = CloseHandle(listening, llmBridgeServer)
                 /\ closeCb' = [closeCb EXCEPT ![llmBridgeServer] = TRUE]
                 /\ UNCHANGED thrown
       ELSE UNCHANGED <<listening, closeCb, thrown>>
    /\ UNCHANGED <<llmBridgeServer, created, bindFailed, observers, listenCb,
                   disposables, startCalls, notice>>
    /\ UNCHANGED reqVars

\* the close of instance i completes: its callbacks clear the reference
CloseCompleted(i) ==
    /\ closeCb[i]
    /\ ~listening[i]
    /\ closeCb' = [closeCb EXCEPT ![i] = FALSE]
    /\ llmBridgeServer' = 0
    /\ notice' = "stopped"
    /\ UNCHANGED <<created, listening, bindFailed, observers, listenCb, disposables,
                   disposed, startCalls, thrown>>
    /\ UNCHANGED reqVars

\* one tick after a listen that bound the port: the 'listening' event runs
\* the callback passed to listen, unless the instance was closed meanwhile
ListenCallback(i) ==
    /\ listenCb[i]
    /\ listenCb' = [listenCb EXCEPT ![i] = FALSE]
    /\ notice' = IF listening[i] THEN "started" ELSE notice
    /\ UNCHANGED <<llmBridgeServer, created, listening, bindFailed, closeCb,
                   observers, disposables, disposed, startCalls, thrown>>
    /\ UNCHANGED reqVars

LifecycleInit == RequestsInit(OneRequest) /\ ServerStopped

LifecycleNext ==
    \/ \E ok \in BOOLEAN : Start(ok)
    \/ \E i \in Instances : ErrorEvent(i)
    \/ Dispose
    \/ \E i \in Instances : CloseCompleted(i)
    \/ \E i \in Instances : ListenCallback(i)

LifecycleSpec == LifecycleInit /\ [][LifecycleNext]_vars

\* The lifecycle as the extension host drives it: the start command runs
\* any number of times, then deactivation disposes context.subscriptions
\* (the command and every teardown), after which nothing starts a server.
\* A close completes once the connections of the instance have finished.
DeactivationNext ==
    \/ \E ok \in BOOLEAN : disposed = 0 /\ Start(ok)
    \/ \E i \in Instances : ErrorEvent(i)
    \/ Dispose
    \/ \E i \in Instances : CloseCompleted(i)
    \/ \E i \in Instances : ListenCallback(i)

DeactivationSpec ==
    /\ LifecycleInit
    /\ [][DeactivationNext]_vars
    /\ \A i \in Instances : WF_vars(CloseCompleted(i))

(***************************************************************************)
(* Properties of the request handler.                                      *)
(***************************************************************************)
\* the chunks a relay of the fragments fs writes: one chunk per fragment
FragmentChunks(fs) == [i \in 1..Len(fs) |-> <<fs[i]>>]

\* the body of the request has been parsed, to a value that has properties
BodyParsed(r) == requestBody[r].t \notin {"undefined", "null"}

\* the prompt of the parsed body is absent, empty or not a string
PromptInvalid(r) ==
    requestBody[r].prompt.t /= "string" \/ requestBody[r].prompt.v = ""

\* C1: every POST /chat request whose parsed body has a prompt that is
\* absent, empty or not a string is answered 400 with the fixed body, and
\* neither a model-selection query nor a model invocation is issued for it.
C1_InvalidPromptRejected ==
    \A r \in Requests :
        (BodyParsed(r) /\ PromptInvalid(r)) =>
            /\ pc[r] = "done"
            /\ res[r].statusCode = 400
            /\ res[r].endBody = PromptRequiredBody
            /\ queries[r] = <<>>
            /\ invoked[r] = <<>>

\* C2: while fragments are relayed, the chunks written are the first
\* `consumed` fragments the model produced, one chunk each and in order (a
\* prefix of what was produced), and the response is open; when the stream
\* has completed and the handler has returned, the chunks are exactly the
\* fragments produced (none for an empty stream) and the response has been
\* ended once, with status 200 and without a trailing body.
C2_RelayInOrder ==
    \A r \in Requests :
        /\ pc[r] = "streaming" =>
              /\ consumed[r] <= Len(produced[r])
              /\ res[r].chunks = FragmentChunks(SubSeq(produced[r], 1, consumed[r]))
              /\ ~res[r].writableEnded
        /\ (pc[r] = "done" /\ stream[r].state = "done") =>
              /\ res[r].chunks = FragmentChunks(produced[r])
              /\ res[r].statusCode = 200
              /\ res[r].headWrites = 1
              /\ res[r].writableEnded
              /\ res[r].endCalls = 1
              /\ res[r].endBody = <<>>

\* C2's case: two different fragments relayed to a connected client
C2_Witness ==
    \E r \in Requests :
        /\ pc[r] = "done"
        /\ stream[r].state = "done"
        /\ ~closeEmitted[r]
        /\ produced[r] = <<"a", "b">>
        /\ res[r].chunks = <<(<<"a">>), (<<"b">>)>>

\* C3: when the connection of a request has closed before its response is
\* finalized, cancellation has been invoked on the request's cancellation
\* handle exactly once.
C3_CancelledExactlyOnce ==
    \A r \in Requests :
        (closeEmitted[r] /\ cts[r].created /\ ~res[r].writableEnded) =>
            cts[r].cancelCalls = 1

\* C4: once the disconnect of a request has been observed (cancellation was
\* invoked), no step consumes a further fragment or writes one (a fragment
\* is written as a chunk of one string; the error marker has three).
C4_NoRelayAfterDisconnect ==
    [][\A r \in Requests :
          cts[r].cancelCalls > 0 =>
              /\ consumed'[r] = consumed[r]
              /\ \A i \in 1..Len(res'[r].chunks) :
                    i > Len(res[r].chunks) => Len(res'[r].chunks[i]) /= 1]_vars

\* C5: the response of a request is never ended twice, nothing is written
\* to it and no header is written once it has been ended, and when the
\* handler has returned it has been ended exactly once.
C5_EndedExactlyOnce ==
    \A r \in Requests :
        /\ res[r].endCalls <= 1
        /\ res[r].afterEnd = 0
        /\ res[r].writableEnded <=> res[r].endCalls = 1
        /\ pc[r] = "done" => res[r].endCalls = 1

\* C6: once the model stream has completed or raised, or the disconnect of
\* the client has been observed, the response is eventually ended.
C6_EventuallyEnded ==
    \A r \in OneRequest :
        (\/ pc[r] = "streaming" /\ stream[r].state /= "open"
         \/ cts[r].cancelCalls > 0)
        ~> res[r].writableEnded

\* the text of the marker for the thrown value e
C7_MarkerText(e) == IF e.t = "error" /\ e.v = "" THEN "Error" ELSE e.v

\* C7: when the model has raised e, during the invocation or after the
\* fragments F, and the handler has returned, the status is 200, set by the
\* only header write, the chunks are F followed by the one marker
\* "\nError from LLM service: <message>\n", and the response has been ended
\* once, without a trailing body.
C7_ErrorMarkerAppended ==
    \A r \in Requests :
        (pc[r] = "done" /\ stream[r].state = "error") =>
            /\ res[r].statusCode = 200
            /\ res[r].headWrites = 1
            /\ res[r].chunks =
                  Append(FragmentChunks(produced[r]),
                         <<"\nError from LLM service: ",
                           C7_MarkerText(stream[r].error), "\n">>)
            /\ res[r].writableEnded
            /\ res[r].endCalls = 1
            /\ res[r].endBody = <<>>

(***************************************************************************)
(* Properties of the server lifecycle.                                     *)
(***************************************************************************)
\* the singleton is in the state Listening
Listening == llmBridgeServer /= 0 /\ listening[llmBridgeServer]

\* a step of startLlmBridgeServer, of a teardown disposable, of a close callback
StartStep == startCalls' = startCalls + 1
DisposeStep == disposed' = disposed + 1
CloseCompletedStep == \E i \in Instances : closeCb[i] /\ ~closeCb'[i]

\* C8: at most one instance created by start is listening at any time, and
\* start never creates an instance while an earlier one is still listening.
C8_SingleInstance ==
    /\ [](Cardinality({i \in Instances : listening[i]}) <= 1)
    /\ [][created' > created => ~PortHeld]_vars

\* C9: a call of start while the singleton is Listening changes nothing but
\* the notice, which reports "already running": the reference, the
\* instances and which of them listens, the error observers and the
\* teardown disposables stay as they are.
C9_StartWhileListening ==
    [][(StartStep /\ Listening) =>
          /\ notice' = "already running"
          /\ UNCHANGED <<llmBridgeServer, created, listening, bindFailed, closeCb,
                         observers, disposables, disposed, thrown>>]_vars

\* C9's case: a second start has found the first instance listening
C9_Witness ==
    /\ notice = "already running"
    /\ startCalls = 2
    /\ created = 1
    /\ llmBridgeServer = 1
    /\ listening[1]
    /\ disposables = 1

\* C10: a teardown that finds a server closes its listening socket; when a
\* close completes the reference is absent; a teardown that finds the
\* reference absent changes nothing; and no teardown raises.
C10_StopContract ==
    /\ [][/\ (DisposeStep /\ llmBridgeServer /= 0) =>
                /\ ~listening'[llmBridgeServer]
                /\ closeCb'[llmBridgeServer]
                /\ llmBridgeServer' = llmBridgeServer
          /\ CloseCompletedStep => llmBridgeServer' = 0
          /\ (DisposeStep /\ llmBridgeServer = 0) =>
                UNCHANGED <<llmBridgeServer, created, listening, bindFailed, closeCb,
                            observers, disposables, startCalls, notice, thrown>>]_vars
    /\ [](~thrown)

\* C10's case: two teardowns have run, the second close has completed, and
\* the singleton is Stopped
C10_Witness ==
    /\ disposed = 2
    /\ notice = "stopped"
    /\ llmBridgeServer = 0
    /\ ~PortHeld
    /\ \A i \in Instances : ~closeCb[i]

\* C11: when the 'error' observer of an instance runs, that instance is not
\* listening afterwards and the reference is absent; an instance that has
\* stopped listening never listens again; and a start that follows with the
\* reference absent creates a fresh instance, which listens when the port
\* is granted.
C11_ListenerErrorResets ==
    /\ [][\A i \in Instances :
             ErrorEvent(i) => (~listening'[i] /\ llmBridgeServer' = 0)]_vars
    /\ [][\A i \in Instances :
             (i <= created /\ ~listening[i]) => ~listening'[i]]_vars
    /\ [][(StartStep /\ llmBridgeServer = 0) =>
             /\ created' = created + 1
             /\ llmBridgeServer' = created'
             /\ ~PortHeld => (listening'[created'] \/ bindFailed'[created'])]_vars

\* every registered teardown disposable has run
Deactivated == disposables > 0 /\ disposed = disposables

\* C12: once every registered teardown disposable has run, after any
\* sequence of start calls and listener errors, eventually and from then on
\* no instance is listening and the reference is absent.
C12_DeactivationReleases ==
    Deactivated ~> [](~PortHeld /\ llmBridgeServer = 0)

\* C12's case: two instances were started (the first failed with a listener
\* error), both teardowns have run and the close has completed
C12_Witness ==
    /\ Deactivated
    /\ created = 2
    /\ disposed = 2
    /\ notice = "stopped"
    /\ llmBridgeServer = 0
    /\ ~PortHeld

\* the request went to the chat route: method POST and url /chat
OnChatRoute(r) == reqLine[r].method = "POST" /\ reqLine[r].url = "/chat"

\* selectChatModels has resolved for request r, to nothing or to no model
SelectionEmpty(r) ==
    /\ models[r] /= <<>>
    /\ (~models[r][1].defined \/ models[r][1].list = <<>>)

\* the text of a selector value inside the message: a string or a number as
\* it is, an object as "[object Object]"
C13_Text(x) == IF x.t = "object" THEN "[object Object]" ELSE x.v

\* C13: a request whose selection resolved to an absent or empty set has
\* its response ended once with status 503 and the no-model body naming the
\* vendor (and the family when given), written by the only header write; it
\* has no fragment writes, no token source and no model invocation.
C13_NoModelUnavailable ==
    \A r \in Requests :
        SelectionEmpty(r) =>
            /\ pc[r] = "done"
            /\ Truthy(requestBody[r].prompt)
            /\ res[r].statusCode = 503
            /\ res[r].headWrites = 1
            /\ res[r].writableEnded
            /\ res[r].endCalls = 1
            /\ res[r].afterEnd = 0
            /\ res[r].endBody =
                   <<"error", "No suitable language model found for vendor '",
                     C13_Text(queries[r][1].vendor), "'">>
                   \o (IF queries[r][1].family.t /= "undefined"
                       THEN <<" and family '", C13_Text(queries[r][1].family), "'">>
                       ELSE <<>>)
                   \o <<". Ensure the provider (e.g., GitHub Copilot) is active and available.">>
            /\ res[r].chunks = <<>>
            /\ invoked[r] = <<>>
            /\ ~cts[r].created

\* C13's case: the host returned an empty list for vendor acme, family
\* gpt-4o, and the 503 response has been ended
C13_Witness ==
    /\ models["r1"] = <<[defined |-> TRUE, list |-> <<>>]>>
    /\ queries["r1"] = <<[vendor |-> Str("acme"), family |-> Str("gpt-4o")]>>
    /\ res["r1"].statusCode = 503
    /\ res["r1"].writableEnded

\* C14: while the body is read, the accumulator followed by what is still
\* to arrive is the text the client sent, and nothing is parsed or written;
\* the promise of the body settles by a parse only when the whole text has
\* arrived, resolved with the parse of it or rejected when JSON.parse
\* rejects it; and the handler, resumed on that rejection, ends the response
\* once with status 500 and the structured body carrying the parse error's
\* message, with no selection query and no model invocation.
C14_MalformedBodyRejected ==
    /\ [][\A r \in Requests :
             pc[r] = "reading" => body'[r] \o wire'[r] = body[r] \o wire[r]]_vars
    /\ [](\A r \in Requests :
             /\ pc[r] = "reading" =>
                   (requestBody[r].t = "undefined" /\ res[r] = NewResponse)
             /\ bodyPromise[r].state = "resolved" =>
                   /\ wire[r] = <<>>
                   /\ JsonParse(body[r]).ok
                   /\ bodyPromise[r].value = JsonParse(body[r]).value
             /\ bodyPromise[r] = Rejected(InvalidJsonError) =>
                   (wire[r] = <<>> /\ ~JsonParse(body[r]).ok)
             /\ requestBody[r].t /= "undefined" =>
                   /\ bodyPromise[r].state = "resolved"
                   /\ requestBody[r] = bodyPromise[r].value)
    /\ [][\A r \in Requests :
             (/\ pc[r] = "reading"
              /\ bodyPromise[r].state = "pending"
              /\ bodyPromise'[r].state /= "pending"
              /\ bodyPromise'[r].error /= AbortedError) =>
                 /\ wire[r] = <<>>
                 /\ bodyPromise'[r] = IF JsonParse(body[r]).ok
                                      THEN Resolved(JsonParse(body[r]).value)
                                      ELSE Rejected(InvalidJsonError)]_vars
    /\ [](\A r \in Requests :
             (pc[r] /= "reading" /\ bodyPromise[r] = Rejected(InvalidJsonError)) =>
                 /\ pc[r] = "done"
                 /\ res[r].statusCode = 500
                 /\ res[r].headWrites = 1
                 /\ res[r].writableEnded
                 /\ res[r].endCalls = 1
                 /\ res[r].endBody =
                        <<"error", "Failed to process chat request.",
                          "details", "Invalid JSON body: SyntaxError">>
                 /\ res[r].chunks = <<>>
                 /\ queries[r] = <<>>
                 /\ invoked[r] = <<>>)

\* C14's case: a truncated object has arrived and ended, and was rejected
C14_Witness ==
    /\ pc["r1"] = "done"
    /\ OnChatRoute("r1")
    /\ wire["r1"] = <<>>
    /\ body["r1"] = <<LBrace, Member("prompt", Str("hi"))>>
    /\ bodyPromise["r1"] = Rejected(InvalidJsonError)
    /\ res["r1"].statusCode = 500
    /\ res["r1"].writableEnded

\* C15: a request that is not POST /chat has its response ended once with
\* status 404 and the fixed not-found body as soon as it arrives; its body
\* is never read or parsed, nothing is asked of the host or the model, and
\* the server instance keeps listening.
C15_OtherRoutesNotFound ==
    \A r \in Requests :
        (pc[r] /= "idle" /\ ~OnChatRoute(r)) =>
            /\ pc[r] = "done"
            /\ res[r].statusCode = 404
            /\ res[r].headWrites = 1
            /\ res[r].writableEnded
            /\ res[r].endCalls = 1
            /\ res[r].endBody = <<"error", "Not Found. Use POST /chat">>
            /\ res[r].chunks = <<>>
            /\ body[r] = <<>>
            /\ bodyPromise[r] = Pending
            /\ requestBody[r].t = "undefined"
            /\ queries[r] = <<>>
            /\ models[r] = <<>>
            /\ invoked[r] = <<>>
            /\ ~cts[r].created
            /\ llmBridgeServer = 1
            /\ listening[1]

\* C15's case: GET /chat with a well-formed body has been answered
C15_Witness ==
    /\ reqLine["r1"] = [method |-> "GET", url |-> "/chat"]
    /\ wire["r1"] = <<LBrace, Member("prompt", Str("hi")), RBrace>>
    /\ res["r1"].statusCode = 404
    /\ res["r1"].writableEnded

\* the 'close' event of request r is emitted in this step
CloseStep(r) == ~closeEmitted[r] /\ closeEmitted'[r]

\* C16: with two requests in flight, the 'close' event of one request
\* cancels that request's own token source when its observer is registered
\* and its response is open, and leaves the token source of the other
\* request as it was; a token source is cancelled only after its own
\* request's 'close'; and the chunks written to a response are, in order,
\* fragments of that request's own model stream, followed at most by the
\* error marker.
C16_RequestsIsolated ==
    /\ [][\A a \in Requests :
             CloseStep(a) =>
                 /\ \A b \in Requests \ {a} : cts'[b] = cts[b]
                 /\ (closeObserver[a] /\ ~res[a].writableEnded) =>
                        cts'[a].cancelCalls = cts[a].cancelCalls + 1]_vars
    /\ [](\A r \in Requests :
             /\ cts[r].cancelCalls > 0 => closeEmitted[r]
             /\ \E n \in 0..Len(produced[r]) :
                    \/ res[r].chunks = FragmentChunks(SubSeq(produced[r], 1, n))
                    \/ \E e \in ModelErrors :
                           res[r].chunks =
                               Append(FragmentChunks(SubSeq(produced[r], 1, n)),
                                      ErrorMarker(e)))

\* C16's case: both requests are streaming different fragments; the client
\* of r1 has gone and r1's token source is cancelled, r2's is not
C16_Witness ==
    /\ Requests = TwoRequests
    /\ pc["r1"] = "streaming"
    /\ pc["r2"] = "streaming"
    /\ res["r1"].chunks = <<<<"a">>>>
    /\ res["r2"].chunks = <<<<"b">>>>
    /\ closeEmitted["r1"]
    /\ ~closeEmitted["r2"]
    /\ cts["r1"].cancelCalls = 1
    /\ cts["r2"] = [created |-> TRUE, cancelCalls |-> 0]

\* C17: once a response has been ended, no step raises the number of
\* cancel calls on that request's token source; in particular the 'close'
\* event that follows the end of the exchange cancels nothing.
C17_NoCancelAfterEnd ==
    [][\A r \in Requests :
          res[r].writableEnded => cts'[r].cancelCalls = cts[r].cancelCalls]_vars

\* C17's case: the stream completed, both fragments were relayed, the
\* response was ended, the 'close' event has been emitted and the token
\* source was never cancelled
C17_Witness ==
    /\ pc["r1"] = "done"
    /\ stream["r1"].state = "done"
    /\ Len(res["r1"].chunks) = MaxFragments
    /\ res["r1"].writableEnded
    /\ closeObserver["r1"]
    /\ closeEmitted["r1"]
    /\ cts["r1"] = [created |-> TRUE, cancelCalls |-> 0]

\* C18: a request issues at most one selection query and at most one model
\* invocation, whatever follows; and a model invocation exists only with a
\* prompt that passed the test, one resolved selection that holds a model,
\* and the 200 header written by the only header write.
C18_NoRetry ==
    \A r \in Requests :
        /\ Len(queries[r]) <= 1
        /\ Len(models[r]) <= Len(queries[r])
        /\ Len(invoked[r]) <= 1
        /\ invoked[r] /= <<>> =>
              /\ Truthy(requestBody[r].prompt)
              /\ invoked[r][1].prompt = requestBody[r].prompt
              /\ Len(queries[r]) = 1
              /\ Len(models[r]) = 1
              /\ models[r][1].defined
              /\ models[r][1].list /= <<>>
              /\ res[r].headersSent
              /\ res[r].statusCode = 200
              /\ res[r].headWrites = 1

\* C18's case: the model failed in mid-stream after a disconnect, the
\* response is ended, and there is still one query and one invocation
C18_Witness ==
    /\ pc["r1"] = "done"
    /\ stream["r1"].state = "error"
    /\ produced["r1"] /= <<>>
    /\ closeEmitted["r1"]
    /\ cts["r1"].cancelCalls = 1
    /\ Len(queries["r1"]) = 1
    /\ Len(invoked["r1"]) = 1

\* C19: the selector of the query has the request's vendor when the request
\* has one (a value that is not falsy) and "copilot" otherwise, and has a
\* family exactly when the request has one; the model invoked is the first
\* entry of the list the host returned.
C19_SelectorAndFirstModel ==
    \A r \in Requests :
        /\ queries[r] /= <<>> =>
              /\ queries[r][1].vendor =
                     (IF requestBody[r].vendor.t = "undefined"
                         \/ requestBody[r].vendor = Str("")
                      THEN Str("copilot") ELSE requestBody[r].vendor)
              /\ queries[r][1].family =
                     (IF requestBody[r].family.t = "undefined"
                         \/ requestBody[r].family = Str("")
                      THEN Undefined ELSE requestBody[r].family)
        /\ invoked[r] /= <<>> => invoked[r][1].model = models[r][1].list[1]

\* C19's case: vendor acme with family gpt-4o was queried, the host
\* returned m2 before m1, and m2 was invoked
C19_Witness ==
    /\ queries["r1"] = <<[vendor |-> Str("acme"), family |-> Str("gpt-4o")]>>
    /\ models["r1"] = <<[defined |-> TRUE, list |-> <<"m2", "m1">>]>>
    /\ Len(invoked["r1"]) = 1
    /\ invoked["r1"][1].model = "m2"

\* C20: whenever the reference is absent no instance is listening; and a
\* close callback or 'error' observer of an instance that the reference
\* does not hold leaves the reference and every instance's listening state
\* as they were.
C20_ReferenceAgrees ==
    /\ [](llmBridgeServer = 0 => ~PortHeld)
    /\ [][\A i \in Instances :
             ((CloseCompleted(i) \/ ErrorEvent(i)) /\ llmBridgeServer \notin {0, i}) =>
                 /\ llmBridgeServer' = llmBridgeServer
                 /\ listening' = listening]_vars

====
